---- MODULE Spec2Model ----
(***************************************************************************)
(* Model of package scope of ngorm (src/scope/scope.go): the schema        *)
(* resolver GetModelStruct with its metadata cache, the relationship       *)
(* inference it defers (buildRelationSlice, buildRelationStruct), the      *)
(* primary-key and table-name lookups, and the positional binder AddToVars.*)
(*                                                                         *)
(* Strings are sequences of tokens: a camel-case word ("User", "ID"), a    *)
(* lower-case word ("user", "id") or the separator "_".  Concatenation is  *)
(* \o, strings.HasPrefix / TrimPrefix work on tokens.                      *)
(*                                                                         *)
(* A Go type is [wrap, base]: wrap is the sequence of "ptr" / "slice"      *)
(* constructors around the base type, outermost first.                     *)
(*                                                                         *)
(* model.Struct values live in the heap `descs`; a pointer is an index in  *)
(* it (0 is nil).  The StructMap `cache` maps a shape name to a pointer.   *)
(* The functions take and return the heap h = [descs, cache, log, types]:  *)
(* log is a ghost list of the errors that deferred calls returned and      *)
(* nobody read, types the declared record types that reflect reads.        *)
(***************************************************************************)
EXTENDS Integers, Sequences, FiniteSets, TLC

VARIABLES world, descs, cache, search, SQLVars, crashed, last, calls

vars == <<world, descs, cache, search, SQLVars, crashed, last, calls>>

\* ------------------------------------------------------------------ bounds
MaxDepth == 4

MaxVars == 4

\* ----------------------------------------------------------------- strings
\* the camel-case words of the declarations and their lower-case forms
LowerOf ==
  [User |-> "user", ID |-> "id", Name |-> "name", Profile |-> "profile", Owner |-> "owner",
   Type |-> "type", Toy |-> "toy", Toys |-> "toys", Tag |-> "tag", Tags |-> "tags",
   Code |-> "code", Key |-> "key", Base |-> "base", Pet |-> "pet", Post |-> "post",
   Posts |-> "posts", Box |-> "box", Node |-> "node", Acct |-> "acct", Person |-> "person",
   Boss |-> "boss", Pair |-> "pair", Pairs |-> "pairs", Ign |-> "ign", Bare |-> "bare",
   Mis |-> "mis", Lone |-> "lone", Det |-> "det", Core |-> "core", Loop |-> "loop",
   Oob |-> "oob", Item |-> "item", Items |-> "items", Pre |-> "pre", At |-> "at",
   Time |-> "time", NullStr |-> "null_str"]

RECURSIVE SnakeFrom(_, _)
SnakeFrom(s, i) ==
  IF i > Len(s) THEN <<>>
  ELSE (IF s[i] \in DOMAIN LowerOf
          THEN (IF i > 1 THEN <<"_">> ELSE <<>>) \o <<LowerOf[s[i]]>>
          ELSE <<s[i]>>) \o SnakeFrom(s, i + 1)

ToDBName(s) == SnakeFrom(s, 1)

Plural(s) == s \o <<"s">>

HasPrefix(s, p) == Len(p) <= Len(s) /\ SubSeq(s, 1, Len(p)) = p

TrimPrefix(s, p) == IF HasPrefix(s, p) THEN SubSeq(s, Len(p) + 1, Len(s)) ELSE s

IsPrefixOf(a, b) == Len(a) <= Len(b) /\ SubSeq(b, 1, Len(a)) = a

Reverse(s) == [i \in 1..Len(s) |-> s[Len(s) + 1 - i]]

\* ------------------------------------------------------------------- types
Ty(w, b) == [wrap |-> w, base |-> b]

NilValue == Ty(<<>>, "nil")

Ptr(t) == Ty(<<"ptr">> \o t.wrap, t.base)

Elem(t) == Ty(Tail(t.wrap), t.base)

Kind(t) ==
  IF t.wrap # <<>> THEN t.wrap[1]
  ELSE IF t.base \in {"int", "nil"} THEN t.base
  ELSE "struct"

\* GetModelStruct, lines 97-106: one pointer, then one slice and one pointer
RefTypeOf(t) ==
  LET a == IF Kind(t) = "ptr" THEN Elem(t) ELSE t
      b == IF Kind(a) = "slice" THEN Elem(a) ELSE a
  IN  IF Kind(a) = "slice" /\ Kind(b) = "ptr" THEN Elem(b) ELSE b

RECURSIVE StripPtr(_)
StripPtr(t) == IF Kind(t) = "ptr" THEN StripPtr(Elem(t)) ELSE t

RECURSIVE StripAll(_)
StripAll(t) == IF Kind(t) \in {"ptr", "slice"} THEN StripAll(Elem(t)) ELSE t

\* ------------------------------------------------- declared record shapes
\* A field declaration of a Go struct type with its parsed tag settings.
FD(n, t, tg) == [name |-> n, exported |-> TRUE, anon |-> FALSE, type |-> t, tags |-> tg]

Anon(n, t, tg) == [name |-> n, exported |-> TRUE, anon |-> TRUE, type |-> t, tags |-> tg]

Hidden(n, t) == [name |-> n, exported |-> FALSE, anon |-> FALSE, type |-> t, tags |-> <<>>]

\* recv: which receiver implements engine.Tabler / engine.DBTabler
\* ("" none, "ptr" pointer receiver, "val" value receiver)
SH(n, fs) == [name |-> n, scanner |-> FALSE, tabler |-> "", dbtabler |-> "",
              tablerName |-> <<>>, fields |-> fs]

IntT == Ty(<<>>, "int")

S(b) == Ty(<<>>, b)

P(b) == Ty(<<"ptr">>, b)

L(b) == Ty(<<"slice">>, b)

LP(b) == Ty(<<"slice", "ptr">>, b)

NoTag == <<>>

PK == "PRIMARY_KEY" :> <<>>

TimeShape == "Time" :> SH(<<"Time">>, <<Hidden(<<"wall">>, IntT), Hidden(<<"ext">>, IntT)>>)

\* a library type with sql.Scanner, such as sql.NullString
ScannerShape == "NullStr" :> [SH(<<"NullStr">>, <<FD(<<"Name">>, IntT, NoTag)>>) EXCEPT !.scanner = TRUE]

\* has_one, has_many and many_to_many between shapes with declared keys
BlogShapes ==
  ScannerShape
  @@ "User" :> SH(<<"User">>,
        << FD(<<"ID">>, IntT, NoTag),
           FD(<<"Name">>, S("NullStr"), NoTag),
           FD(<<"Profile">>, S("Profile"), NoTag),
           FD(<<"Posts">>, L("Post"), NoTag) >>)
  @@ "Profile" :> SH(<<"Profile">>,
        << FD(<<"ID">>, IntT, PK),
           FD(<<"User", "ID">>, IntT, NoTag) >>)
  @@ "Post" :> SH(<<"Post">>,
        << FD(<<"ID">>, IntT, PK @@ "COLUMN" :> <<"post", "_", "key">>),
           FD(<<"User", "ID">>, IntT, NoTag),
           FD(<<"Tags">>, LP("Tag"), "MANY2MANY" :> <<"post", "_", "tags">>) >>)
  @@ "Tag" :> SH(<<"Tag">>,
        << FD(<<"ID">>, IntT, PK),
           FD(<<"Code">>, IntT, PK),
           FD(<<"Posts">>, L("Post"), "MANY2MANY" :> <<"post", "_", "tags">>) >>)

\* embedded records: by value, by pointer with a column prefix, nested
EmbedShapes ==
  TimeShape
  @@ "Base" :> SH(<<"Base">>,
        << FD(<<"ID">>, IntT, PK),
           FD(<<"Name">>, IntT, "DEFAULT" :> <<"x">>) >>)
  @@ "Node" :> SH(<<"Node">>,
        << FD(<<"Code">>, IntT, NoTag),
           Anon(<<"Base">>, S("Base"), NoTag),
           FD(<<"Key">>, IntT, "COLUMN" :> <<"node", "_", "key">>),
           FD(<<"At">>, P("Time"), NoTag) >>)
  @@ "Box" :> SH(<<"Box">>,
        << FD(<<"Pre">>, P("Base"), "EMBEDDED" :> <<>> @@ "EMBEDDED_PREFIX" :> <<"pre", "_">>),
           Anon(<<"Node">>, S("Node"), NoTag),
           FD(<<"Name">>, IntT, "-" :> <<>>),
           Hidden(<<"note">>, IntT) >>)

\* shapes without a usable key, and key lists that do not match
KeyShapes ==
  "Pair" :> SH(<<"Pair">>,
        << FD(<<"Code">>, IntT, PK),
           FD(<<"Name">>, IntT, PK @@ "AUTO_INCREMENT" :> <<>>) >>)
  @@ "Ign" :> SH(<<"Ign">>,
        << FD(<<"ID">>, IntT, "-" :> <<>>),
           FD(<<"Name">>, IntT, "AUTO_INCREMENT" :> <<>>) >>)
  @@ "Bare" :> SH(<<"Bare">>,
        << FD(<<"Name">>, IntT, NoTag),
           FD(<<"Pairs">>, L("Pair"), NoTag),
           FD(<<"Pair">>, S("Pair"), NoTag),
           FD(<<"Tags">>, L("int"), NoTag) >>)
  @@ "Mis" :> SH(<<"Mis">>,
        << FD(<<"ID">>, IntT, PK),
           FD(<<"Pairs">>, L("Pair"),
              "FOREIGNKEY" :> << <<"Mis", "ID">>, <<"Code">> >>
              @@ "ASSOCIATIONFOREIGNKEY" :> << <<"ID">> >>) >>)

\* many_to_many from owners whose keys are not fields
JoinShapes ==
  "Pair" :> SH(<<"Pair">>,
        << FD(<<"Code">>, IntT, PK),
           FD(<<"Name">>, IntT, PK) >>)
  @@ "Core" :> SH(<<"Core">>, << FD(<<"ID">>, IntT, PK) >>)
  @@ "Lone" :> SH(<<"Lone">>,
        << FD(<<"Name">>, IntT, NoTag),
           FD(<<"Pairs">>, L("Pair"), "MANY2MANY" :> <<"lone", "_", "pairs">>) >>)
  @@ "Det" :> SH(<<"Det">>,
        << FD(<<"Core">>, S("Core"), "EMBEDDED" :> <<>> @@ PK),
           FD(<<"Pairs">>, LP("Pair"), "MANY2MANY" :> <<"det", "_", "pairs">>) >>)

\* polymorphic ownership; custom table names in the session-aware form (Toy,
\* as withDBTabler of the tests) and in the zero-argument form (Pet, as
\* withTabler), both on the pointer receiver
PolyShapes ==
  "Toy" :> [SH(<<"Toy">>,
        << FD(<<"ID">>, IntT, PK),
           FD(<<"Owner", "ID">>, IntT, NoTag),
           FD(<<"Owner", "Type">>, IntT, NoTag) >>)
        EXCEPT !.dbtabler = "ptr", !.tablerName = <<"toy", "_", "table">>]
  @@ "Pet" :> [SH(<<"Pet">>,
        << FD(<<"ID">>, IntT, NoTag),
           FD(<<"Toys">>, L("Toy"), "POLYMORPHIC" :> <<"Owner">>),
           FD(<<"Toy">>, S("Toy"), "POLYMORPHIC" :> <<"Owner">>) >>)
        EXCEPT !.tabler = "ptr", !.tablerName = <<"pet", "_", "table">>]

\* belongs_to, and a nested record held by pointer
OwnerShapes ==
  "Person" :> SH(<<"Person">>,
        << FD(<<"ID">>, IntT, PK),
           FD(<<"Name">>, IntT, NoTag) >>)
  @@ "Acct" :> SH(<<"Acct">>,
        << FD(<<"ID">>, IntT, PK),
           FD(<<"Owner">>, S("Person"), NoTag),
           FD(<<"Owner", "ID">>, IntT, NoTag),
           FD(<<"Boss">>, P("Person"), NoTag),
           FD(<<"Boss", "ID">>, IntT, NoTag) >>)

\* a shape that embeds itself, and more foreign keys than association keys
CrashShapes ==
  "Loop" :> SH(<<"Loop">>, << FD(<<"ID">>, IntT, NoTag), Anon(<<"Loop">>, P("Loop"), NoTag) >>)
  @@ "Item" :> SH(<<"Item">>,
        << FD(<<"ID">>, IntT, PK),
           FD(<<"Oob", "ID">>, IntT, NoTag),
           FD(<<"Name">>, IntT, NoTag) >>)
  @@ "Oob" :> SH(<<"Oob">>,
        << FD(<<"ID">>, IntT, PK),
           FD(<<"Items">>, L("Item"), "FOREIGNKEY" :> << <<"Oob", "ID">>, <<"Name">> >>) >>)

Worlds ==
  [blog |-> BlogShapes, embed |-> EmbedShapes, keys |-> KeyShapes, join |-> JoinShapes,
   poly |-> PolyShapes, owner |-> OwnerShapes, crash |-> CrashShapes]

Shapes == Worlds[world]

ShapeNames == DOMAIN Shapes

\* ------------------------------------------------------- runtime structures
\* model.Relationship
NewRel ==
  [Kind |-> "", ForeignFieldNames |-> <<>>, ForeignDBNames |-> <<>>,
   AssociationForeignFieldNames |-> <<>>, AssociationForeignDBNames |-> <<>>,
   PolymorphicType |-> <<>>, PolymorphicDBName |-> <<>>, PolymorphicValue |-> <<>>]

\* model.StructField as built at lines 137-143.  Relationship is <<>> (nil)
\* or <<rel>>.  Walk says how reflect reaches the field from a record value:
\* "ok" directly or through embedded values, "nilptr" through an embedded
\* pointer, "bad" through something reflect.Indirect does not make a struct.
NewField(fd) ==
  [Name |-> fd.name, Names |-> <<fd.name>>, DBName |-> <<>>, Tags |-> fd.tags,
   Type |-> fd.type, IsIgnored |-> FALSE, IsPrimaryKey |-> FALSE,
   HasDefaultValue |-> FALSE, IsScanner |-> FALSE, IsNormal |-> FALSE,
   IsForeignKey |-> FALSE, Relationship |-> <<>>, Walk |-> "ok"]

Tag(f, k) == IF k \in DOMAIN f.Tags THEN f.Tags[k] ELSE <<>>

HasTag(f, k) == k \in DOMAIN f.Tags

\* a pointer held in m.PrimaryFields: the idx-th element of m.StructFields,
\* or (idx = 0) a field object that is in no field list
RefIdx(i) == [idx |-> i, det |-> <<>>]

RefDet(f) == [idx |-> 0, det |-> <<f>>]

Deref(m, r) == IF r.idx > 0 THEN m.StructFields[r.idx] ELSE r.det[1]

PrimaryFieldsOf(m) == [i \in 1..Len(m.PrimaryFields) |-> Deref(m, m.PrimaryFields[i])]

\* GetForeignField, as the index of the field found (0 for nil)
RECURSIVE GetForeignFieldFrom(_, _, _)
GetForeignFieldFrom(column, fields, i) ==
  IF i > Len(fields) THEN 0
  ELSE IF \/ fields[i].Name = column
          \/ fields[i].DBName = column
          \/ fields[i].DBName = ToDBName(column)
       THEN i
       ELSE GetForeignFieldFrom(column, fields, i + 1)

GetForeignField(column, fields) == GetForeignFieldFrom(column, fields, 1)

\* results of the functions: st is "ok", "err" (an error value is returned),
\* "panic" (run-time panic) or "overflow" (unbounded recursion)
Ok(h, v) == [h |-> h, st |-> "ok", e |-> "", v |-> v]

Fail(h, e) == [h |-> h, st |-> "err", e |-> e, v |-> 0]

Crash(h, how, e) == [h |-> h, st |-> how, e |-> e, v |-> 0]

Crashed(r) == r.st \in {"panic", "overflow"}

\* engine.Engine.SingularTable as the test engine sets it
SingularTable == FALSE

\* a session whose search never names a table
NoSearchTableName == <<>>

\* e.Search is <<>> (nil) or <<[TableName |-> name]>>
SearchTableName == IF search = <<>> THEN <<>> ELSE search[1].TableName

\* does a value of type t have the method of a shape whose receiver is recv?
Implements(t, recv) ==
  \/ recv = "val" /\ t.wrap \in {<<>>, <<"ptr">>}
  \/ recv = "ptr" /\ t.wrap = <<"ptr">>

\* ------------------------------------------------------------ the functions
RECURSIVE GetModelStruct(_, _, _, _)
RECURSIVE ProcFields(_, _, _, _, _, _, _)
RECURSIVE RunDefers(_, _, _, _, _, _)
RECURSIVE buildRelationSlice(_, _, _, _, _, _)
RECURSIVE buildRelationStruct(_, _, _, _, _, _)
RECURSIVE Fields(_, _, _, _)
RECURSIVE PrimaryFields(_, _, _, _)
RECURSIVE FieldByName(_, _, _, _, _)
RECURSIVE PrimaryField(_, _, _, _)
RECURSIVE PrimaryKey(_, _, _, _)
RECURSIVE TableName(_, _, _, _)

\* the sub-record's fields appended as they are, the name path not extended
AppendClonesNoPath(m, fd, subs, i) == [m EXCEPT !.StructFields = @ \o subs]

\* lines 187-197: the clones of the sub-record's fields, appended to m
RECURSIVE AppendClones(_, _, _, _)
AppendClones(m, fd, subs, i) ==
  IF i > Len(subs) THEN m
  ELSE LET sub == subs[i]
           walk == IF fd.type.wrap = <<>> THEN sub.Walk
                   ELSE IF fd.type.wrap = <<"ptr">> /\ sub.Walk # "bad" THEN "nilptr"
                   ELSE "bad"
           c == [sub EXCEPT !.Names = <<fd.name>> \o @,
                            !.DBName = IF "EMBEDDED_PREFIX" \in DOMAIN fd.tags
                                       THEN fd.tags["EMBEDDED_PREFIX"] \o @ ELSE @,
                            !.Walk = walk]
           n == Len(m.StructFields) + 1
           m1 == [m EXCEPT !.StructFields = Append(@, c),
                           !.PrimaryFields = IF c.IsPrimaryKey THEN Append(@, RefIdx(n)) ELSE @]
       IN AppendClones(m1, fd, subs, i + 1)

\* lines 214-218
ColumnOf(fd) == IF "COLUMN" \in DOMAIN fd.tags THEN fd.tags["COLUMN"] ELSE ToDBName(fd.name)

\* lines 135-222: the loop over the declared fields, from field i on; v is
\* the list of deferred relationship calls, oldest first
ProcFields(h, vt, z, id, i, defers, fuel) ==
  LET m == h.descs[id]
      decl == h.types[m.ModelType].fields
  IN
  IF i > Len(decl) THEN Ok(h, defers)
  ELSE IF ~decl[i].exported THEN ProcFields(h, vt, z, id, i + 1, defers, fuel)
  ELSE
    LET fd == decl[i]
        f0 == NewField(fd)
        n == Len(m.StructFields) + 1
        isPK == "PRIMARY_KEY" \in DOMAIN fd.tags
        hasDef == \/ "DEFAULT" \in DOMAIN fd.tags
                  \/ "AUTO_INCREMENT" \in DOMAIN fd.tags /\ ~isPK
        inType == StripPtr(fd.type)
        isScanner == inType.wrap = <<>> /\ inType.base \in DOMAIN h.types
                     /\ h.types[inType.base].scanner
        isTime == inType = Ty(<<>>, "Time")
        isEmb == "EMBEDDED" \in DOMAIN fd.tags \/ fd.anon
        f1 == [f0 EXCEPT !.IsPrimaryKey = isPK, !.HasDefaultValue = hasDef]
        add(f, withPK) ==
          [h EXCEPT !.descs[id].StructFields = Append(@, [f EXCEPT !.DBName = ColumnOf(fd)]),
                    !.descs[id].PrimaryFields = IF withPK THEN Append(@, RefIdx(n)) ELSE @]
    IN
    IF "-" \in DOMAIN fd.tags
      THEN ProcFields(add([f0 EXCEPT !.IsIgnored = TRUE], FALSE), vt, z, id, i + 1, defers, fuel)
    ELSE IF isScanner
      THEN ProcFields(add([f1 EXCEPT !.IsScanner = TRUE, !.IsNormal = TRUE], isPK),
                      vt, z, id, i + 1, defers, fuel)
    ELSE IF isTime
      THEN ProcFields(add([f1 EXCEPT !.IsNormal = TRUE], isPK), vt, z, id, i + 1, defers, fuel)
    ELSE IF isEmb
      THEN LET hPK == [h EXCEPT !.descs[id].PrimaryFields =
                                 IF isPK THEN Append(@, RefDet(f1)) ELSE @]
               Flatten(r) ==
                 IF r.st # "ok" THEN [r EXCEPT !.v = defers]
                 ELSE ProcFields([r.h EXCEPT !.descs[id] =
                                    AppendClones(@, fd, r.h.descs[r.v].StructFields, 1)],
                                 vt, z, id, i + 1, defers, fuel)
           IN Flatten(GetModelStruct(hPK, Ptr(inType), TRUE, fuel))
    ELSE IF Kind(inType) = "slice"
      THEN ProcFields(add(f1, isPK), vt, z, id, i + 1,
                      Append(defers, [kind |-> "slice", idx |-> n]), fuel)
    ELSE IF Kind(inType) = "struct"
      THEN ProcFields(add(f1, isPK), vt, z, id, i + 1,
                      Append(defers, [kind |-> "struct", idx |-> n]), fuel)
    ELSE ProcFields(add([f1 EXCEPT !.IsNormal = TRUE], isPK), vt, z, id, i + 1, defers, fuel)

\* the deferred calls of one GetModelStruct frame, ds in the order they run;
\* the error a deferred call returns is dropped (lines 203, 206)
RunDefers(h, vt, z, id, ds, fuel) ==
  IF ds = <<>> THEN Ok(h, 0)
  ELSE LET Dropped(r) ==
             IF r.st = "err"
             THEN [r.h EXCEPT !.log = Append(@, [shape |-> r.h.descs[id].ModelType,
                                                 field |-> ds[1].idx, e |-> r.e])]
             ELSE r.h
           Rest(r) == IF Crashed(r) THEN r
                      ELSE RunDefers(Dropped(r), vt, z, id, Tail(ds), fuel)
       IN Rest(IF ds[1].kind = "slice"
               THEN buildRelationSlice(h, vt, z, id, ds[1].idx, fuel)
               ELSE buildRelationStruct(h, vt, z, id, ds[1].idx, fuel))

\* lines 224-229
IdFallback(m) ==
  LET j == GetForeignField(<<"id">>, m.StructFields)
  IN IF Len(m.PrimaryFields) = 0 /\ j # 0
     THEN [m EXCEPT !.StructFields[j].IsPrimaryKey = TRUE,
                    !.PrimaryFields = Append(@, RefIdx(j))]
     ELSE m

\* lines 120-132
DefaultTableNameOf(sh) ==
  IF sh.tabler # "" THEN sh.tablerName
  ELSE IF SingularTable THEN ToDBName(sh.name) ELSE Plural(ToDBName(sh.name))

\* engine.StructMap.Set (line 231)
StructMapSet(h, name, id) == [h EXCEPT !.cache[name] = id]

\* engine.StructMap.Get (line 114)
StructMapGet(h, name) == h.cache[name]

\* a lookup that never finds the shape
CacheNeverHits(h, refType) == FALSE

\* lines 113-116: is the shape in the cache?
CacheHit(h, refType) == StructMapGet(h, refType.base) # 0

\* GetModelStruct for a value of type vt; z: the embedded pointers of the
\* value are nil.  fuel bounds the depth of nested resolutions.
GetModelStruct(h, vt, z, fuel) ==
  IF vt = NilValue THEN Fail(h, "nil value")
  ELSE
    LET refType == RefTypeOf(vt) IN
    IF Kind(refType) # "struct" THEN Fail(h, "not supported")
    ELSE IF CacheHit(h, refType) THEN Ok(h, StructMapGet(h, refType.base))
    ELSE IF fuel = 0 THEN Crash(h, "overflow", "stack overflow")
    ELSE
      LET id == Len(h.descs) + 1
          m0 == [ModelType |-> refType.base,
                 DefaultTableName |-> DefaultTableNameOf(h.types[refType.base]),
                 StructFields |-> <<>>, PrimaryFields |-> <<>>]
          \* line 231, what the deferred calls then find
          Stored(pf) == StructMapSet([pf.h EXCEPT !.descs[id] = IdFallback(@)],
                                     refType.base, id)
          Return(pf, d) == IF Crashed(d) THEN d
                           ELSE IF pf.st = "err" THEN Fail(d.h, pf.e) ELSE Ok(d.h, id)
          Leave(pf) ==
            IF Crashed(pf) THEN pf
            ELSE Return(pf, RunDefers(IF pf.st = "err" THEN pf.h ELSE Stored(pf),
                                      vt, z, id, Reverse(pf.v), fuel - 1))
      IN Leave(ProcFields([h EXCEPT !.descs = Append(@, m0)], vt, z, id, 1, <<>>, fuel - 1))

\* Fields: the field snapshots of value; v is the list of their descriptors
Fields(h, vt, z, fuel) ==
  LET i == IF Kind(vt) = "ptr" THEN Elem(vt) ELSE vt
      isStruct == vt # NilValue /\ Kind(i) = "struct"
      Snapshots(r) ==
        IF r.st # "ok" THEN r
        ELSE LET fs == r.h.descs[r.v].StructFields
             IN IF isStruct /\ \E k \in 1..Len(fs) :
                       fs[k].Walk = "bad" \/ (fs[k].Walk = "nilptr" /\ z)
                THEN Crash(r.h, "panic", "FieldByName on zero Value")
                ELSE Ok(r.h, fs)
  IN Snapshots(GetModelStruct(h, vt, z, fuel))

PrimaryFields(h, vt, z, fuel) ==
  LET Keys(r) == IF r.st # "ok" THEN r
                 ELSE Ok(r.h, SelectSeq(r.v, LAMBDA f : f.IsPrimaryKey))
  IN Keys(Fields(h, vt, z, fuel))

\* FieldByName: v is the descriptor of the field found
FieldByName(h, vt, z, name, fuel) ==
  LET Found(r, j) == IF j = 0 THEN Fail(r.h, "field not found") ELSE Ok(r.h, r.v[j])
      Find(r) == IF r.st # "ok" THEN r ELSE Found(r, GetForeignField(name, r.v))
  IN Find(Fields(h, vt, z, fuel))

PrimaryField(h, vt, z, fuel) ==
  LET First(pf) == IF pf.st # "ok" THEN pf
                   ELSE IF pf.v = <<>>
                     THEN Crash(pf.h, "panic", "index out of range")
                     ELSE Ok(pf.h, pf.v[1])
      Pick(r) ==
        IF r.st # "ok" THEN r
        ELSE LET n == Len(r.h.descs[r.v].PrimaryFields)
             IN IF n > 1 THEN FieldByName(r.h, vt, z, <<"id">>, fuel)
                ELSE IF n = 1 THEN First(PrimaryFields(r.h, vt, z, fuel))
                ELSE Fail(r.h, "no field found")
  IN Pick(GetModelStruct(h, vt, z, fuel))

PrimaryKey(h, vt, z, fuel) ==
  LET Column(r) == IF r.st # "ok" THEN r ELSE Ok(r.h, r.v.DBName)
  IN Column(PrimaryField(h, vt, z, fuel))

\* TableName: v is the name; an error of GetModelStruct gives the empty name
TableName(h, vt, z, fuel) ==
  IF SearchTableName # <<>> THEN Ok(h, SearchTableName)
  ELSE
    LET sh == IF vt.base \in DOMAIN h.types THEN h.types[vt.base] ELSE SH(<<>>, <<>>)
    IN IF Implements(vt, sh.tabler) THEN Ok(h, sh.tablerName)
       ELSE IF Implements(vt, sh.dbtabler) THEN Ok(h, sh.tablerName)
       ELSE LET Default(r) == IF Crashed(r) THEN r
                              ELSE IF r.st = "err" THEN Ok(r.h, <<>>)
                              ELSE Ok(r.h, r.h.descs[r.v].DefaultTableName)
            IN Default(GetModelStruct(h, vt, z, fuel))

Names(fs) == [i \in 1..Len(fs) |-> fs[i].Name]

DBNames(fs) == [i \in 1..Len(fs) |-> fs[i].DBName]

\* the names of keys that GetForeignField finds in fields, in the order of keys
RECURSIVE FoundNames(_, _, _)
FoundNames(keys, fields, i) ==
  IF i > Len(keys) THEN <<>>
  ELSE LET j == GetForeignField(keys[i], fields)
       IN (IF j # 0 THEN <<fields[j].Name>> ELSE <<>>) \o FoundNames(keys, fields, i + 1)

\* lines 356-363 (470-478, 537-544): the association keys cut out of the
\* foreign keys that start with prefix and name a field of fields
RECURSIVE TrimmedKeys(_, _, _, _)
TrimmedKeys(fks, prefix, fields, i) ==
  IF i > Len(fks) THEN <<>>
  ELSE LET a == TrimPrefix(fks[i], prefix)
       IN (IF HasPrefix(fks[i], prefix) /\ GetForeignField(a, fields) # 0
           THEN <<a>> ELSE <<>>) \o TrimmedKeys(fks, prefix, fields, i + 1)

Prefixed(prefix, names) == [i \in 1..Len(names) |-> prefix \o names[i]]

\* lines 336-374 and 449-489: the foreign keys and association foreign keys
\* of has_many / has_one; v is [fks, afks]
OwnerKeys(h, vt, z, id, tagFks, tagAfks, associationType, fuel) ==
  LET m == h.descs[id] IN
  IF Len(tagFks) = 0
  THEN IF Len(tagAfks) = 0
       THEN Ok(h, [fks |-> Prefixed(associationType, Names(PrimaryFieldsOf(m))),
                   afks |-> Names(PrimaryFieldsOf(m))])
       ELSE LET found == FoundNames(tagAfks, m.StructFields, 1)
            IN Ok(h, [fks |-> Prefixed(associationType, found), afks |-> tagAfks \o found])
  ELSE IF Len(tagAfks) = 0
       THEN LET a == TrimmedKeys(tagFks, associationType, m.StructFields, 1)
            IN IF Len(a) = 0 /\ Len(tagFks) = 1
               THEN LET OwnKey(pk) == IF pk.st # "ok" THEN pk
                                      ELSE Ok(pk.h, [fks |-> tagFks, afks |-> <<pk.v>>])
                    IN OwnKey(PrimaryKey(h, vt, z, fuel))
               ELSE Ok(h, [fks |-> tagFks, afks |-> a])
       ELSE IF Len(tagFks) # Len(tagAfks)
            THEN Fail(h, "invalid foreign keys, should have same length")
            ELSE Ok(h, [fks |-> tagFks, afks |-> tagAfks])

\* lines 376-389, 491-504 and 557-571: pair the keys; the foreign field is
\* looked up in the fields of descs[fside], the association field in those
\* of descs[aside]; v is the relationship
RECURSIVE PairKeys(_, _, _, _, _, _, _)
PairKeys(h, fside, aside, fks, afks, idx, rel) ==
  IF idx > Len(fks) THEN Ok(h, rel)
  ELSE LET ff == GetForeignField(fks[idx], h.descs[fside].StructFields)
       IN IF ff = 0 THEN PairKeys(h, fside, aside, fks, afks, idx + 1, rel)
          ELSE IF idx > Len(afks) THEN Crash(h, "panic", "index out of range")
          ELSE LET af == GetForeignField(afks[idx], h.descs[aside].StructFields)
               IN IF af = 0 THEN PairKeys(h, fside, aside, fks, afks, idx + 1, rel)
                  ELSE LET A == h.descs[aside].StructFields[af]
                           F == h.descs[fside].StructFields[ff]
                       IN PairKeys([h EXCEPT !.descs[fside].StructFields[ff].IsForeignKey = TRUE],
                                   fside, aside, fks, afks, idx + 1,
                                   [rel EXCEPT
                                      !.AssociationForeignFieldNames = Append(@, A.Name),
                                      !.AssociationForeignDBNames = Append(@, A.DBName),
                                      !.ForeignFieldNames = Append(@, F.Name),
                                      !.ForeignDBNames = Append(@, F.DBName)])

\* lines 272-280: the source side of many_to_many
RECURSIVE SourceKeys(_, _, _, _, _)
SourceKeys(fks, fields, typeName, i, rel) ==
  IF i > Len(fks) THEN rel
  ELSE LET j == GetForeignField(fks[i], fields)
       IN SourceKeys(fks, fields, typeName, i + 1,
            IF j = 0 THEN rel
            ELSE [rel EXCEPT
                    !.ForeignFieldNames = Append(@, fields[j].DBName),
                    !.ForeignDBNames = Append(@, ToDBName(typeName) \o <<"_">> \o fields[j].DBName)])

\* lines 293-303: the association side of many_to_many; v is the relationship
RECURSIVE AssociationKeys(_, _, _, _, _, _, _)
AssociationKeys(h, toScope, names, typeName, i, rel, fuel) ==
  IF i > Len(names) THEN Ok(h, rel)
  ELSE LET Add(r) ==
             IF r.st # "ok" THEN r
             ELSE AssociationKeys(r.h, toScope, names, typeName, i + 1,
                    [rel EXCEPT
                       !.AssociationForeignFieldNames = Append(@, r.v.DBName),
                       !.AssociationForeignDBNames =
                          Append(@, ToDBName(typeName) \o <<"_">> \o r.v.DBName)],
                    fuel)
       IN Add(FieldByName(h, toScope, TRUE, names[i], fuel))

\* lines 319-334 and 430-445: the polymorphic owner; pv is the result of the
\* default polymorphic value.  v is [h, rel, associationType]
Polymorphic(h, tid, field, rel, associationType, pv) ==
  LET poly == Tag(field, "POLYMORPHIC")
      pt == GetForeignField(poly \o <<"Type">>, h.descs[tid].StructFields)
  IN IF poly = <<>> \/ pt = 0 THEN Ok(h, [rel |-> rel, at |-> associationType])
     ELSE IF ~HasTag(field, "POLYMORPHIC_VALUE") /\ pv.st # "ok" THEN pv
     ELSE LET T == h.descs[tid].StructFields[pt]
              h1 == IF HasTag(field, "POLYMORPHIC_VALUE") THEN h ELSE pv.h
          IN Ok([h1 EXCEPT !.descs[tid].StructFields[pt].IsForeignKey = TRUE],
                [rel |-> [rel EXCEPT
                            !.PolymorphicType = T.Name,
                            !.PolymorphicDBName = T.DBName,
                            !.PolymorphicValue =
                               IF HasTag(field, "POLYMORPHIC_VALUE")
                               THEN field.Tags["POLYMORPHIC_VALUE"] ELSE pv.v],
                 at |-> poly])

\* buildRelationSlice for the field at index fi of descs[id]
buildRelationSlice(h, vt, z, id, fi, fuel) ==
  LET m == h.descs[id]
      field == m.StructFields[fi]
      typeName == h.types[m.ModelType].name
      toScope == Ptr(field.Type)
      tagFks == Tag(field, "FOREIGNKEY")
      tagAfks == Tag(field, "ASSOCIATIONFOREIGNKEY")
      elemType == StripAll(field.Type)
  IN
  IF Kind(elemType) # "struct"
    THEN Ok([h EXCEPT !.descs[id].StructFields[fi].IsNormal = TRUE], 0)
  ELSE IF Tag(field, "MANY2MANY") # <<>>
    THEN
      LET fks == IF Len(tagFks) = 0 THEN DBNames(PrimaryFieldsOf(m)) ELSE tagFks
          rel1 == SourceKeys(fks, m.StructFields, typeName, 1,
                             [NewRel EXCEPT !.Kind = "many_to_many"])
          \* line 308
          Attach(r) ==
            IF r.st # "ok" THEN r
            ELSE Ok([r.h EXCEPT !.descs[id].StructFields[fi].Relationship = <<r.v>>], 0)
          Target(pf) ==
            IF pf.st # "ok" THEN pf
            ELSE Attach(AssociationKeys(pf.h, toScope,
                                        IF Len(tagAfks) = 0 THEN DBNames(pf.v) ELSE tagAfks,
                                        h.types[elemType.base].name, 1, rel1, fuel))
      IN Target(IF Len(tagAfks) = 0 THEN PrimaryFields(h, toScope, TRUE, fuel)
                ELSE Ok(h, <<>>))
  ELSE
    LET \* e.Search.TableName (line 326)
        SearchName(hh) == IF search = <<>> THEN Crash(hh, "panic", "nil pointer dereference")
                          ELSE Ok(hh, search[1].TableName)
        \* lines 391-393
        AttachMany(r) ==
          IF r.st # "ok" THEN r
          ELSE IF Len(r.v.ForeignFieldNames) # 0
            THEN Ok([r.h EXCEPT !.descs[id].StructFields[fi].Relationship = <<r.v>>], 0)
            ELSE Ok(r.h, 0)
        Pair(ms, p, k) ==
          IF k.st # "ok" THEN k
          ELSE AttachMany(PairKeys(k.h, ms.v, id, k.v.fks, k.v.afks, 1, p.v.rel))
        Keyed(ms, p) ==
          IF p.st # "ok" THEN p
          ELSE Pair(ms, p, OwnerKeys(p.h, vt, z, id, tagFks, tagAfks, p.v.at, fuel))
        Many(ms) ==
          IF ms.st # "ok" THEN ms
          ELSE Keyed(ms, Polymorphic(ms.h, ms.v, field, [NewRel EXCEPT !.Kind = "has_many"],
                                     typeName, SearchName(ms.h)))
    IN Many(GetModelStruct(h, toScope, TRUE, fuel))

\* lines 511-555: the keys of belongs_to; v is [fks, afks]
TargetKeys(h, tid, field, toScope, tagFks, tagAfks, fuel) ==
  LET toFields == h.descs[tid].StructFields IN
  IF Len(tagFks) = 0
  THEN IF Len(tagAfks) = 0
       THEN LET FromKeys(pf) ==
                  IF pf.st # "ok" THEN pf
                  ELSE Ok(pf.h, [fks |-> Prefixed(field.Name, Names(pf.v)),
                                 afks |-> Names(pf.v)])
            IN FromKeys(PrimaryFields(h, toScope, TRUE, fuel))
       ELSE LET found == FoundNames(tagAfks, toFields, 1)
            IN Ok(h, [fks |-> Prefixed(field.Name, found), afks |-> tagAfks \o found])
  ELSE IF Len(tagAfks) = 0
       THEN LET a == TrimmedKeys(tagFks, field.Name, toFields, 1)
            IN IF Len(a) = 0 /\ Len(tagFks) = 1
               THEN LET TargetKey(pk) == IF pk.st # "ok" THEN pk
                                         ELSE Ok(pk.h, [fks |-> tagFks, afks |-> <<pk.v>>])
                    IN TargetKey(PrimaryKey(h, toScope, TRUE, fuel))
               ELSE Ok(h, [fks |-> tagFks, afks |-> a])
       ELSE IF Len(tagFks) # Len(tagAfks)
            THEN Fail(h, "invalid foreign keys, should have same length")
            ELSE Ok(h, [fks |-> tagFks, afks |-> tagAfks])

\* buildRelationStruct for the field at index fi of descs[id]
buildRelationStruct(h, vt, z, id, fi, fuel) ==
  LET field == h.descs[id].StructFields[fi]
      typeName == h.types[h.descs[id].ModelType].name
      toScope == Ptr(field.Type)
      tagFks == Tag(field, "FOREIGNKEY")
      tagAfks == Tag(field, "ASSOCIATIONFOREIGNKEY")
      \* lines 573-576
      AttachBelongs(r2) ==
        IF r2.st # "ok" THEN r2
        ELSE IF Len(r2.v.ForeignFieldNames) # 0
          THEN Ok([r2.h EXCEPT !.descs[id].StructFields[fi].Relationship =
                                 <<[r2.v EXCEPT !.Kind = "belongs_to"]>>], 0)
          ELSE Ok(r2.h, 0)
      PairBelongs(ms, r, k2) ==
        IF k2.st # "ok" THEN k2
        ELSE AttachBelongs(PairKeys(k2.h, id, ms.v, k2.v.fks, k2.v.afks, 1, r.v))
      \* lines 506-510
      AttachOne(ms, r) ==
        IF r.st # "ok" THEN r
        ELSE IF Len(r.v.ForeignFieldNames) # 0
          THEN Ok([r.h EXCEPT !.descs[id].StructFields[fi].Relationship =
                                <<[r.v EXCEPT !.Kind = "has_one"]>>], 0)
          ELSE PairBelongs(ms, r, TargetKeys(r.h, ms.v, field, toScope, tagFks, tagAfks, fuel))
      PairOne(ms, p, k) ==
        IF k.st # "ok" THEN k
        ELSE AttachOne(ms, PairKeys(k.h, ms.v, id, k.v.fks, k.v.afks, 1, p.v.rel))
      KeyedOne(ms, p) ==
        IF p.st # "ok" THEN p
        ELSE PairOne(ms, p, OwnerKeys(p.h, vt, z, id, tagFks, tagAfks, p.v.at, fuel))
      One(ms) ==
        IF ms.st # "ok" THEN ms
        ELSE KeyedOne(ms, Polymorphic(ms.h, ms.v, field, NewRel, typeName,
                                      TableName(ms.h, vt, z, fuel)))
  IN One(GetModelStruct(h, toScope, TRUE, fuel))

\* ------------------------------------------------------------- AddToVars
\* a plain value, or a *model.Expr with its text Q and its arguments
Plain(x) == [k |-> "v", x |-> x]

Expr(q, args) == [k |-> "e", Q |-> q, Args |-> args]

Dollar == <<"$1", "$2", "$3", "$4", "$5", "$6", "$7", "$8", "$9", "$10", "$11", "$12">>

\* Dialect.BindVar of the ql dialect
BindVar(n) == <<Dollar[n]>>

\* strings.Replace(s, "?", new, 1)
RECURSIVE ReplaceFirst(_, _, _)
ReplaceFirst(s, new, i) ==
  IF i > Len(s) THEN s
  ELSE IF s[i] = "?" THEN SubSeq(s, 1, i - 1) \o new \o SubSeq(s, i + 1, Len(s))
  ELSE ReplaceFirst(s, new, i + 1)

RECURSIVE AddToVars(_, _)
RECURSIVE AddArgs(_, _, _, _)
\* a binder that puts the value in front of the list
AddToVarsInFront(vs, value) ==
  IF value.k = "e" THEN AddArgs(vs, value.Q, value.Args, 1)
  ELSE [vars |-> <<value.x>> \o vs, out |-> BindVar(Len(vs) + 1)]

\* lines 709-713: the loop over expr.Args, from argument i on
AddArgs(vs, exp, args, i) ==
  IF i > Len(args) THEN [vars |-> vs, out |-> exp]
  ELSE LET r == AddToVars(vs, args[i])
       IN AddArgs(r.vars, ReplaceFirst(exp, r.out, 1), args, i + 1)

AddToVars(vs, value) ==
  IF value.k = "e" THEN AddArgs(vs, value.Q, value.Args, 1)
  ELSE [vars |-> Append(vs, value.x), out |-> BindVar(Len(vs) + 1)]

\* ---------------------------------------------------- condition compiler
\* Dialect.Quote of the ql dialect
Quote(s) == <<"\"">> \o s \o <<"\"">>

\* the values of a collection bound one by one from value i on; out is the
\* comma-joined list of their placeholders
RECURSIVE BindAll(_, _, _, _)
BindAll(vs, keys, i, out) ==
  IF i > Len(keys) THEN [vars |-> vs, out |-> out]
  ELSE LET Joined(r) ==
             BindAll(r.vars, keys, i + 1, out \o (IF i > 1 THEN <<",">> ELSE <<>>) \o r.out)
       IN Joined(AddToVars(vs, Plain(keys[i])))

\* the membership test of a collection, whatever its length
MembershipTest(vs, table, column, keys, negated) ==
  LET In(r) == [vars |-> r.vars,
                out |-> <<"(">> \o Quote(table) \o <<".">> \o Quote(column)
                        \o <<IF negated THEN "NOT IN" ELSE "IN", "(">> \o r.out \o <<")", ")">>]
  IN In(BindAll(vs, keys, 1, <<>>))

\* builder.Where (negated: builder.Not) for a condition that is a collection
\* of primary-key values of the record with this table and key column
KeysCondition(vs, table, column, keys, negated) ==
  IF keys = <<>> THEN [vars |-> vs, out |-> <<>>]
  ELSE MembershipTest(vs, table, column, keys, negated)

\* ------------------------------------------------------------------ inputs
\* table and key column of fixture.User, the record the builder tests query
UserTable == <<"users">>

UserKey == <<"id">>

\* collections of primary-key values
KeyLists == {<<>>, <<"a">>, <<"a", "b">>, <<"b", "a", "a">>}

PlainValues == {Plain("a"), Plain("b")}

FlatExprs ==
  {Expr(<<"?">>, <<>>), Expr(<<"?">>, <<Plain("a")>>),
   Expr(<<"?", "+", "?">>, <<Plain("a"), Plain("b")>>),
   Expr(<<"x">>, <<Plain("b"), Plain("a")>>)}

NestedExprs ==
  {Expr(<<"?", "-", "?">>, <<e, Plain("b")>>) : e \in FlatExprs}
  \cup {Expr(<<"?">>, <<Plain("b"), e>>) : e \in FlatExprs}

Values == PlainValues \cup FlatExprs \cup NestedExprs

\* the number of entries a value appends
RECURSIVE Leaves(_)
RECURSIVE LeavesFrom(_, _)
LeavesFrom(args, i) == IF i > Len(args) THEN <<>> ELSE Leaves(args[i]) \o LeavesFrom(args, i + 1)

Leaves(value) == IF value.k = "e" THEN LeavesFrom(value.Args, 1) ELSE <<value.x>>

\* the forms in which a record of shape b is handed to the functions
Forms(b) ==
  {Ty(<<>>, b), Ty(<<"ptr">>, b), Ty(<<"slice">>, b), Ty(<<"slice", "ptr">>, b),
   Ty(<<"ptr", "slice">>, b), Ty(<<"ptr", "slice", "ptr">>, b),
   Ty(<<"ptr", "ptr">>, b), Ty(<<"slice", "slice">>, b)}

CallValues == UNION {Forms(b) : b \in ShapeNames \cup {"int"}} \cup {NilValue}

\* values whose fields Fields reads through reflect: records and pointers to
\* records, with their embedded pointers nil (z) or set
RecordValues == {Ty(w, b) : w \in {<<>>, <<"ptr">>}, b \in ShapeNames}

TableNames == {<<>>, <<"my", "_", "table">>}

\* ------------------------------------------------------------- the machine
\* the heap a call starts with
Heap == [descs |-> descs, cache |-> cache, log |-> <<>>, types |-> Shapes]

\* the last call: its result, the errors it dropped, the number of
\* model.Struct values it allocated and their shapes in the order of line 91
NoCall == [op |-> "", arg |-> NilValue, st |-> "", e |-> "", ret |-> 0, log |-> <<>>, allocs |-> 0,
           built |-> <<>>]

\* the goroutines that call GetModelStruct on the engine at the same time
Goroutines == {1, 2}

\* the frame of a goroutine that is in no call
Idle == [pc |-> "idle", vt |-> NilValue, id |-> 0, ds |-> <<>>, st |-> "", e |-> "", ret |-> 0]

Init ==
  /\ world \in DOMAIN Worlds
  /\ descs = <<>>
  /\ cache = [n \in ShapeNames |-> 0]
  /\ search = <<[TableName |-> <<>>]>>
  /\ SQLVars = <<>>
  /\ crashed = FALSE
  /\ last = NoCall
  /\ calls = [g \in Goroutines |-> Idle]

\* A model.Struct is a local of GetModelStruct (line 91) that outlives the
\* call only through the StructMap: the descriptions no cache entry points to
\* are dropped from the heap, and the pointers are renumbered in the order of
\* the shape names, so that a heap has one representation.
RECURSIVE SeqOfSet(_)
SeqOfSet(X) == IF X = {} THEN <<>> ELSE LET x == CHOOSE y \in X : TRUE IN <<x>> \o SeqOfSet(X \ {x})

Cached(h) == SelectSeq(SeqOfSet(DOMAIN h.cache), LAMBDA n : h.cache[n] # 0)

NewId(h, i) ==
  IF i = 0 THEN 0
  ELSE LET c == Cached(h)
       IN IF \E k \in 1..Len(c) : h.cache[c[k]] = i
          THEN CHOOSE k \in 1..Len(c) : h.cache[c[k]] = i
          ELSE 0

Compact(h) ==
  LET c == Cached(h)
  IN [descs |-> [k \in 1..Len(c) |-> h.descs[h.cache[c[k]]]],
      cache |-> [n \in DOMAIN h.cache |-> NewId(h, h.cache[n])]]

\* the effect of a call with result r on the state; ptr: r.v is a pointer
Finish(op, arg, r, ptr) ==
  /\ crashed' = Crashed(r)
  /\ descs' = IF Crashed(r) THEN descs ELSE Compact(r.h).descs
  /\ cache' = IF Crashed(r) THEN cache ELSE Compact(r.h).cache
  /\ last' = [op |-> op, arg |-> arg, st |-> r.st, e |-> r.e,
              ret |-> IF r.st # "ok" THEN 0 ELSE IF ptr THEN NewId(r.h, r.v) ELSE r.v,
              log |-> r.h.log, allocs |-> Len(r.h.descs) - Len(descs),
              built |-> [k \in 1..(Len(r.h.descs) - Len(descs)) |->
                           r.h.descs[Len(descs) + k].ModelType]]
  /\ UNCHANGED <<world, search, SQLVars, calls>>

CallGetModelStruct(vt, z) ==
  /\ ~crashed
  /\ Finish("GetModelStruct", vt, GetModelStruct(Heap, vt, z, MaxDepth), TRUE)

CallPrimaryKey(vt, z) ==
  /\ ~crashed
  /\ Finish("PrimaryKey", vt, PrimaryKey(Heap, vt, z, MaxDepth), FALSE)

CallTableName(vt, z) ==
  /\ ~crashed
  /\ Finish("TableName", vt, TableName(Heap, vt, z, MaxDepth), FALSE)

\* the search package sets the table name of the search (test: part_000:84)
SetSearch(t) ==
  /\ ~crashed
  /\ search # <<[TableName |-> t]>>
  /\ search' = <<[TableName |-> t]>>
  /\ UNCHANGED <<world, descs, cache, SQLVars, crashed, last, calls>>

\* e.Search = nil (test: part_000:91)
ClearSearch ==
  /\ ~crashed
  /\ search # <<>>
  /\ search' = <<>>
  /\ UNCHANGED <<world, descs, cache, SQLVars, crashed, last, calls>>

CallAddToVars(value) ==
  /\ ~crashed
  /\ Len(SQLVars) + Len(Leaves(value)) <= MaxVars
  /\ LET r == AddToVars(SQLVars, value)
     IN /\ SQLVars' = r.vars
        /\ last' = [op |-> "AddToVars", arg |-> value, st |-> "ok", e |-> "",
                    ret |-> r.out, log |-> <<>>, allocs |-> 0, built |-> <<>>]
  /\ UNCHANGED <<world, descs, cache, search, crashed, calls>>

\* builder.Where / builder.Not with a collection of primary keys of User
CallKeysCondition(keys, negated) ==
  /\ ~crashed
  /\ Len(SQLVars) + Len(keys) <= MaxVars
  /\ LET r == KeysCondition(SQLVars, UserTable, UserKey, keys, negated)
     IN /\ SQLVars' = r.vars
        /\ last' = [op |-> IF negated THEN "Not" ELSE "Where",
                    arg |-> [k |-> "keys", xs |-> keys], st |-> "ok", e |-> "",
                    ret |-> r.out, log |-> <<>>, allocs |-> 0, built |-> <<>>]
  /\ UNCHANGED <<world, descs, cache, search, crashed, calls>>

\* e.Scope.SQLVars = nil: a new statement of the session
ResetVars ==
  /\ ~crashed
  /\ SQLVars # <<>>
  /\ SQLVars' = <<>>
  /\ last' = [NoCall EXCEPT !.op = "ResetVars", !.st = "ok"]
  /\ UNCHANGED <<world, descs, cache, search, crashed, calls>>

Next ==
  \/ \E vt \in CallValues : CallGetModelStruct(vt, TRUE)
  \/ \E vt \in RecordValues \cup {NilValue}, z \in BOOLEAN : CallPrimaryKey(vt, z)
  \/ \E vt \in RecordValues : CallTableName(vt, TRUE)
  \/ \E t \in TableNames : SetSearch(t)
  \/ ClearSearch

Spec == Init /\ [][Next]_vars

\* a query-building session: AddToVars calls only
NextVars ==
  \/ \E value \in Values : CallAddToVars(value)
  \/ \E keys \in KeyLists, negated \in BOOLEAN : CallKeysCondition(keys, negated)
  \/ ResetVars

SpecVars == Init /\ [][NextVars]_vars

\* ---------------------------------------------- GetModelStruct, interleaved
\* The steps of one GetModelStruct call of goroutine g.  The StructMap is
\* read and written under its lock; the model.Struct m of the call is a
\* local until line 231 stores its address.

\* A model.Struct lives as long as the StructMap or the frame of a call
\* points to it.  Collect drops the others from the heap and renumbers the
\* pointers: the cached ones in the order of the shape names, then the ones
\* only frames hold, in the order of the goroutines.
RECURSIVE Distinct(_, _)
Distinct(ids, seen) ==
  IF ids = <<>> THEN <<>>
  ELSE IF ids[1] = 0 \/ ids[1] \in seen THEN Distinct(Tail(ids), seen)
  ELSE <<ids[1]>> \o Distinct(Tail(ids), seen \cup {ids[1]})

Collect(h, cs) ==
  LET c == Cached(h)
      held == [k \in 1..Len(c) |-> h.cache[c[k]]]
      live == held \o Distinct(<<cs[1].id, cs[1].ret, cs[2].id, cs[2].ret>>,
                               {held[k] : k \in 1..Len(held)})
      Moved(i) == IF i = 0 THEN 0 ELSE CHOOSE k \in 1..Len(live) : live[k] = i
  IN [descs |-> [k \in 1..Len(live) |-> h.descs[live[k]]],
      cache |-> [n \in DOMAIN h.cache |-> Moved(h.cache[n])],
      calls |-> [g \in DOMAIN cs |-> [cs[g] EXCEPT !.id = Moved(@), !.ret = Moved(@)]]]

\* the state after a step that leaves the heap h and the frames cs
Step(h, cs) ==
  /\ descs' = Collect(h, cs).descs
  /\ cache' = Collect(h, cs).cache
  /\ calls' = Collect(h, cs).calls

\* the records the goroutines resolve
ConcValues == {Ty(<<>>, b) : b \in ShapeNames}

\* lines 90-116: the checks of the value and the cache lookup; a hit returns
Enter(g, vt) ==
  /\ ~crashed
  /\ calls[g].pc = "idle"
  /\ calls' = [calls EXCEPT ![g] =
       IF vt = NilValue THEN [Idle EXCEPT !.pc = "done", !.st = "err", !.e = "nil value"]
       ELSE IF Kind(RefTypeOf(vt)) # "struct"
         THEN [Idle EXCEPT !.pc = "done", !.vt = vt, !.st = "err", !.e = "not supported"]
       ELSE IF CacheHit(Heap, RefTypeOf(vt))
         THEN [Idle EXCEPT !.pc = "done", !.vt = vt, !.st = "ok",
                           !.ret = StructMapGet(Heap, RefTypeOf(vt).base)]
       ELSE [Idle EXCEPT !.pc = "build", !.vt = vt]]
  /\ UNCHANGED <<world, descs, cache, search, SQLVars, crashed, last>>

\* lines 118-231: the fields of m, the id fallback and StructMap.Set; the
\* deferred calls are left to run
Build(g) ==
  /\ ~crashed
  /\ calls[g].pc = "build"
  /\ LET refType == RefTypeOf(calls[g].vt)
         id == Len(descs) + 1
         m0 == [ModelType |-> refType.base,
                DefaultTableName |-> DefaultTableNameOf(Shapes[refType.base]),
                StructFields |-> <<>>, PrimaryFields |-> <<>>]
         Stored(pf) == StructMapSet([pf.h EXCEPT !.descs[id] = IdFallback(@)],
                                    refType.base, id)
         Set(pf, h) ==
           /\ crashed' = Crashed(pf)
           /\ IF Crashed(pf) THEN UNCHANGED <<descs, cache, calls>>
              ELSE Step(h, [calls EXCEPT ![g] =
                     [@ EXCEPT !.pc = "defers", !.id = id, !.ds = Reverse(pf.v),
                               !.st = pf.st, !.e = pf.e]])
         Publish(pf) == Set(pf, IF pf.st = "ok" THEN Stored(pf) ELSE pf.h)
     IN Publish(ProcFields([Heap EXCEPT !.descs = Append(@, m0)], calls[g].vt, TRUE, id, 1,
                           <<>>, MaxDepth - 1))
  /\ UNCHANGED <<world, search, SQLVars, last>>

\* lines 203, 206: the next deferred call of the frame runs; the error it
\* returns is dropped
RunDefer(g) ==
  /\ ~crashed
  /\ calls[g].pc = "defers"
  /\ calls[g].ds # <<>>
  /\ LET d == calls[g].ds[1]
         Ran(r) ==
           /\ crashed' = Crashed(r)
           /\ IF Crashed(r) THEN UNCHANGED <<descs, cache, calls>>
              ELSE Step(r.h, [calls EXCEPT ![g].ds = Tail(@)])
     IN Ran(RunDefers(Heap, calls[g].vt, TRUE, calls[g].id, <<d>>, MaxDepth - 1))
  /\ UNCHANGED <<world, search, SQLVars, last>>

\* lines 232 and 93-116: the call returns once its deferred calls have run,
\* the address of m if the loop over the fields returned no error
Return(g) ==
  /\ ~crashed
  /\ calls[g].pc = "defers"
  /\ calls[g].ds = <<>>
  /\ Step(Heap, [calls EXCEPT ![g] =
           [@ EXCEPT !.pc = "done", !.id = 0,
                     !.ret = IF calls[g].st = "ok" THEN calls[g].id ELSE 0]])
  /\ UNCHANGED <<world, search, SQLVars, crashed, last>>

\* the caller is done with the result
Leave(g) ==
  /\ ~crashed
  /\ calls[g].pc = "done"
  /\ Step(Heap, [calls EXCEPT ![g] = Idle])
  /\ UNCHANGED <<world, search, SQLVars, crashed, last>>

NextConc ==
  \/ \E g \in Goroutines, vt \in ConcValues : Enter(g, vt)
  \/ \E g \in Goroutines : Build(g)
  \/ \E g \in Goroutines : RunDefer(g)
  \/ \E g \in Goroutines : Return(g)
  \/ \E g \in Goroutines : Leave(g)

SpecConc == Init /\ [][NextConc]_vars

\* ------------------------------------------------------------------ claims
\* the shape a value resolves to ("" if it is no record)
ShapeOf(vt) ==
  IF vt # NilValue /\ Kind(RefTypeOf(vt)) = "struct" /\ RefTypeOf(vt).base \in ShapeNames
  THEN RefTypeOf(vt).base ELSE ""

\* the last call was a GetModelStruct that returned a description
Returned == last.op = "GetModelStruct" /\ last.st = "ok"

FieldSet(m) == {m.StructFields[i] : i \in 1..Len(m.StructFields)}

\* C1: once a shape is in the cache, a GetModelStruct call for it, in any
\* form of the value, returns the cached description itself and allocates,
\* changes and stores nothing.
C1_CachedShapeIsReturnedAsIs ==
  [][(/\ last'.op = "GetModelStruct"
      /\ search' = search
      /\ ShapeOf(last'.arg) # ""
      /\ cache[ShapeOf(last'.arg)] # 0)
     => (/\ last'.st = "ok"
         /\ last'.ret = cache[ShapeOf(last'.arg)]
         /\ last'.allocs = 0
         /\ descs' = descs
         /\ cache' = cache)]_vars

\* a call given a slice of pointers was answered from the cache
C1_Witness ==
  /\ Returned
  /\ last.allocs = 0
  /\ last.arg.wrap = <<"slice", "ptr">>
  /\ \E i \in 1..Len(descs[last.ret].StructFields) :
        descs[last.ret].StructFields[i].Relationship # <<>>

\* C2: a description that is in the cache is never changed by a later step.
C2_PublishedIsImmutable ==
  [][\A n \in ShapeNames :
        (cache[n] # 0 /\ cache'[n] # 0) => descs'[cache'[n]] = descs[cache[n]]]_vars

\* C3: when the relationship inference of a field of a shape returns an
\* error, no description of that shape is in the cache, and the call for
\* that shape returns the error.
C3_InferenceErrorAbortsResolution ==
  last.op = "GetModelStruct" =>
    \A i \in 1..Len(last.log) :
       /\ cache[last.log[i].shape] = 0
       /\ last.log[i].shape = ShapeOf(last.arg) => last.st = "err"

\* C4: every field of a returned description is exactly one of ignored,
\* relationship-bearing and normal.
C4_FieldIsExactlyOneKind ==
  Returned =>
    \A f \in FieldSet(descs[last.ret]) :
       Cardinality({k \in {"ignored", "relationship", "normal"} :
                      \/ k = "ignored" /\ f.IsIgnored
                      \/ k = "relationship" /\ f.Relationship # <<>>
                      \/ k = "normal" /\ f.IsNormal}) = 1

\* C5: every relationship attached to a field has at least one foreign field
\* name and at least one association foreign field name.
C5_RelationshipHasAKeyPair ==
  \A d \in 1..Len(descs) : \A f \in FieldSet(descs[d]) :
     f.Relationship # <<>> =>
        /\ Len(f.Relationship[1].ForeignFieldNames) > 0
        /\ Len(f.Relationship[1].AssociationForeignFieldNames) > 0

\* the fields of the resolved shape that are annotated primary keys
AnnotatedKeys(m) == {f \in FieldSet(m) : f.IsPrimaryKey /\ HasTag(f, "PRIMARY_KEY")}

\* C6: PrimaryKey returns the column of an annotated primary key when the
\* shape has one or more; else the column of the field named or columned id;
\* else it fails with the error of a missing primary key.
C6_PrimaryKeyColumn ==
  (last.op = "PrimaryKey" /\ ShapeOf(last.arg) # "" /\ cache[ShapeOf(last.arg)] # 0) =>
    LET m == descs[cache[ShapeOf(last.arg)]]
        j == GetForeignField(<<"id">>, m.StructFields)
    IN IF AnnotatedKeys(m) # {}
       THEN last.st = "ok" /\ last.ret \in {f.DBName : f \in AnnotatedKeys(m)}
       ELSE IF j # 0
       THEN last.st = "ok" /\ last.ret = m.StructFields[j].DBName
       ELSE last.st = "err" /\ last.e = "no field found"

\* C7: in a returned description the primary keys are fields of the field
\* list, flagged isPrimaryKey and not ignored; every flagged field is among
\* them; a key that was not annotated is the only key and is named or
\* columned id.
C7_PrimaryKeysAreFields ==
  Returned =>
    LET m == descs[last.ret]
        keys == PrimaryFieldsOf(m)
    IN /\ \A i \in 1..Len(m.PrimaryFields) :
             /\ m.PrimaryFields[i].idx > 0
             /\ keys[i].IsPrimaryKey
             /\ ~keys[i].IsIgnored
       /\ \A j \in 1..Len(m.StructFields) :
             m.StructFields[j].IsPrimaryKey =>
                \E i \in 1..Len(m.PrimaryFields) : m.PrimaryFields[i].idx = j
       /\ \A i \in 1..Len(keys) :
             ~HasTag(keys[i], "PRIMARY_KEY") =>
                /\ Len(keys) = 1
                /\ keys[i].Name = <<"id">> \/ keys[i].DBName = <<"id">>

\* a declared field that GetModelStruct flattens: annotated EMBEDDED or
\* anonymous, and not ignored, not a scanner and not a time value
IsEmbedding(fd) ==
  /\ fd.exported
  /\ "-" \notin DOMAIN fd.tags
  /\ ~(StripPtr(fd.type).wrap = <<>> /\ StripPtr(fd.type).base \in ShapeNames
       /\ Shapes[StripPtr(fd.type).base].scanner)
  /\ StripPtr(fd.type) # Ty(<<>>, "Time")
  /\ ("EMBEDDED" \in DOMAIN fd.tags \/ fd.anon)

\* the name paths and names the field list of a shape is to have, from its
\* declaration and the cached descriptions of its embedded sub-records
RECURSIVE ExpectedPaths(_, _)
ExpectedPaths(decl, i) ==
  IF i > Len(decl) THEN <<>>
  ELSE LET fd == decl[i]
           sub == descs[cache[ShapeOf(Ptr(StripPtr(fd.type)))]].StructFields
       IN (IF ~fd.exported THEN <<>>
           ELSE IF IsEmbedding(fd)
             THEN [k \in 1..Len(sub) |-> [path |-> <<fd.name>> \o sub[k].Names, name |-> sub[k].Name]]
             ELSE << [path |-> <<fd.name>>, name |-> fd.name] >>)
          \o ExpectedPaths(decl, i + 1)

HasEmbedding(n) == \E i \in 1..Len(Shapes[n].fields) : IsEmbedding(Shapes[n].fields[i])

\* C8: the field list of a returned description of a shape with an embedded
\* sub-record has, in place of each embedding field, the fields of the
\* sub-record's description in their order, the embedding field's name put in
\* front of their name paths, the other fields keeping their places.
C8_EmbeddedFieldsInPlace ==
  (Returned /\ HasEmbedding(ShapeOf(last.arg))) =>
    LET fs == descs[last.ret].StructFields
    IN [k \in 1..Len(fs) |-> [path |-> fs[k].Names, name |-> fs[k].Name]]
         = ExpectedPaths(Shapes[ShapeOf(last.arg)].fields, 1)

\* a shape with an embedding by pointer, a nested embedding and fields around
C8_Witness ==
  /\ Returned
  /\ ShapeOf(last.arg) = "Box"
  /\ Len(descs[last.ret].StructFields) = 8
  /\ descs[last.ret].StructFields[4].Names = << <<"Node">>, <<"Base">>, <<"ID">> >>

JoinColumns(typeName, keys) ==
  [i \in 1..Len(keys) |-> ToDBName(typeName) \o <<"_">> \o keys[i].DBName]

\* C9: a collection field with a many-to-many annotation and no key
\* overrides gets a many_to_many relationship with one foreign entry per
\* primary key of the owner and one association entry per primary key of
\* the target, the join columns being the snake-cased type name, "_" and the
\* key's column, in the order of the keys.
C9_ManyToManyJoinColumns ==
  Returned =>
    LET m == descs[last.ret] IN
    \A f \in FieldSet(m) :
       (/\ Tag(f, "MANY2MANY") # <<>>
        /\ ~HasTag(f, "FOREIGNKEY") /\ ~HasTag(f, "ASSOCIATIONFOREIGNKEY")
        /\ Kind(StripPtr(f.Type)) = "slice"
        /\ ShapeOf(Ptr(f.Type)) # "" /\ cache[ShapeOf(Ptr(f.Type))] # 0)
       => /\ f.Relationship # <<>>
          /\ f.Relationship[1].Kind = "many_to_many"
          /\ f.Relationship[1].ForeignDBNames
               = JoinColumns(Shapes[m.ModelType].name, PrimaryFieldsOf(m))
          /\ f.Relationship[1].AssociationForeignDBNames
               = JoinColumns(Shapes[ShapeOf(Ptr(f.Type))].name,
                             PrimaryFieldsOf(descs[cache[ShapeOf(Ptr(f.Type))]]))

IsPlaceholder(t) == \E n \in DOMAIN Dollar : Dollar[n] = t

NumberOf(t) == CHOOSE n \in DOMAIN Dollar : Dollar[n] = t

\* the placeholder numbers in a text, in the order they occur
PlaceholderNumbers(text) ==
  LET ps == SelectSeq(text, IsPlaceholder) IN [i \in 1..Len(ps) |-> NumberOf(ps[i])]

\* C10 as claimed: a call keeps the entries that are there, a plain value
\* adds one entry and returns the placeholder of the new length, a composite
\* expression adds one entry per argument, in argument order.
C10_OneEntryPerArgument ==
  [][last'.op = "AddToVars" =>
       /\ IsPrefixOf(SQLVars, SQLVars')
       /\ last'.arg.k = "v" =>
            /\ SQLVars' = Append(SQLVars, last'.arg.x)
            /\ last'.ret = BindVar(Len(SQLVars'))
       /\ last'.arg.k = "e" =>
            Len(SQLVars') = Len(SQLVars) + Len(last'.arg.Args)]_vars

\* C10 as amended: a composite expression adds one entry per plain value
\* among its arguments, a composite argument being expanded in place; the
\* placeholders in the text returned are numbered in increasing order within
\* the positions the call filled.
C10_EntriesAreAppendedInOrder ==
  [][last'.op = "AddToVars" =>
       /\ IsPrefixOf(SQLVars, SQLVars')
       /\ SQLVars' = SQLVars \o Leaves(last'.arg)
       /\ last'.arg.k = "v" => last'.ret = BindVar(Len(SQLVars'))
       /\ LET ns == PlaceholderNumbers(last'.ret)
          IN /\ \A i \in 1..Len(ns) : Len(SQLVars) < ns[i] /\ ns[i] <= Len(SQLVars')
             /\ \A i \in 1..Len(ns) - 1 : ns[i] < ns[i + 1]]_vars

\* a composite expression with a composite argument was bound after earlier
\* values of the session
C10_Witness ==
  /\ last.op = "AddToVars"
  /\ last.arg \in NestedExprs
  /\ Len(Leaves(last.arg)) = 3
  /\ Len(SQLVars) = 4
  /\ last.ret = <<"$2", "+", "$3", "-", "$4">>

\* the table name a value supplies itself, <<>> if it supplies none
CustomName(vt) ==
  IF Implements(vt, Shapes[vt.base].tabler) \/ Implements(vt, Shapes[vt.base].dbtabler)
  THEN Shapes[vt.base].tablerName ELSE <<>>

\* the table name the engine's search carries, <<>> if there is no search
\* or it names no table
NameOfSearch == IF search # <<>> /\ Len(search[1].TableName) > 0 THEN search[1].TableName ELSE <<>>

\* a step that is a TableName call returning a name
TableNameReturns == search' = search /\ last'.op = "TableName" /\ last'.st = "ok"

C12_EmptyCollectionNoClause ==
  [][(last'.op \in {"Where", "Not"} /\ last' # last /\ last'.arg.xs = <<>>)
       => (last'.st = "ok" /\ last'.ret = <<>> /\ SQLVars' = SQLVars)]_vars

\* a negated empty collection was compiled after other values were bound
C12_Witness ==
  /\ last.op = "Not"
  /\ last.arg.xs = <<>>
  /\ last.ret = <<>>
  /\ Len(SQLVars) = 2


\* C13: schema resolution and relationship inference end by returning a
\* description or an error value: no call of GetModelStruct, PrimaryKey or
\* TableName ends in a panic of the runtime with an index out of range or a
\* nil pointer dereference, whatever the field tags and whether or not the
\* engine has a search.
C13_ResolutionNeverPanics ==
  last.op \in {"GetModelStruct", "PrimaryKey", "TableName"}
    => ~(last.st = "panic" /\ last.e \in {"index out of range", "nil pointer dereference"})

\* the relationships of the fields of a description, in field order
Relationships(m) == [i \in 1..Len(m.StructFields) |-> m.StructFields[i].Relationship]

\* the relationships of the description that one call alone resolves for vt
\* on an engine with an empty cache (<<>> if that call returns none)
ResolvedAlone(vt) ==
  LET Of(r) == IF r.st = "ok" THEN <<Relationships(r.h.descs[r.v])>> ELSE <<>>
  IN Of(GetModelStruct([descs |-> <<>>, cache |-> [n \in ShapeNames |-> 0],
                        log |-> <<>>, types |-> Shapes], vt, TRUE, MaxDepth))

\* C14: when GetModelStruct calls of several goroutines interleave, the
\* description a call returns has, at the moment of the return, every
\* relationship of the fully resolved description of the shape attached.
C14_ReturnedIsFullyResolved ==
  [][\A g \in Goroutines :
       (/\ calls[g].pc # "done"
        /\ calls'[g].pc = "done"
        /\ calls'[g].st = "ok"
        /\ ResolvedAlone(calls'[g].vt) # <<>>)
       => <<Relationships(descs'[calls'[g].ret])>> = ResolvedAlone(calls'[g].vt)]_vars

\* the fields of a description for which buildRelationStruct runs, with no
\* key list in their tags
NestedRecordFields(m) ==
  {i \in 1..Len(m.StructFields) :
     LET f == m.StructFields[i]
     IN /\ Kind(StripPtr(f.Type)) = "struct"
        /\ ~f.IsIgnored /\ ~f.IsNormal
        /\ ~HasTag(f, "FOREIGNKEY") /\ ~HasTag(f, "ASSOCIATIONFOREIGNKEY")}

\* the association type of a nested-record field f of m with target t
AssociationTypeOf(m, f, t) ==
  IF /\ Tag(f, "POLYMORPHIC") # <<>>
     /\ GetForeignField(Tag(f, "POLYMORPHIC") \o <<"Type">>, t.StructFields) # 0
  THEN Tag(f, "POLYMORPHIC") ELSE Shapes[m.ModelType].name

\* the primary keys of the owner m for which the target t holds the column
\* <associationType><primaryKeyName>
HasOneKeys(m, f, t) ==
  {k \in 1..Len(m.PrimaryFields) :
     GetForeignField(AssociationTypeOf(m, f, t) \o PrimaryFieldsOf(m)[k].Name, t.StructFields) # 0}

\* the primary keys of the target t for which the owner m holds the column
\* <fieldName><primaryKeyName>
BelongsToKeys(m, f, t) ==
  {k \in 1..Len(t.PrimaryFields) :
     GetForeignField(f.Name \o PrimaryFieldsOf(t)[k].Name, m.StructFields) # 0}

KindOf(f) == IF f.Relationship = <<>> THEN "" ELSE f.Relationship[1].Kind

\* every pair of the relationship of f comes from the has_one attempt: a
\* column of the target for a primary key of the owner
PairsOfHasOne(m, f, t) ==
  LET rel == f.Relationship[1]
  IN /\ Len(rel.ForeignFieldNames) = Cardinality(HasOneKeys(m, f, t))
     /\ Len(rel.AssociationForeignFieldNames) = Len(rel.ForeignFieldNames)
     /\ \A j \in 1..Len(rel.ForeignFieldNames) :
          /\ rel.AssociationForeignFieldNames[j] \in {PrimaryFieldsOf(m)[k].Name : k \in HasOneKeys(m, f, t)}
          /\ GetForeignField(rel.ForeignFieldNames[j], t.StructFields) # 0
          /\ rel.ForeignFieldNames[j] \in
               {t.StructFields[GetForeignField(AssociationTypeOf(m, f, t) \o PrimaryFieldsOf(m)[k].Name,
                                               t.StructFields)].Name : k \in HasOneKeys(m, f, t)}

\* every pair of the relationship of f comes from the belongs_to attempt: a
\* column of the owner for a primary key of the target
PairsOfBelongsTo(m, f, t) ==
  LET rel == f.Relationship[1]
  IN /\ Len(rel.ForeignFieldNames) = Cardinality(BelongsToKeys(m, f, t))
     /\ Len(rel.AssociationForeignFieldNames) = Len(rel.ForeignFieldNames)
     /\ \A j \in 1..Len(rel.ForeignFieldNames) :
          /\ rel.AssociationForeignFieldNames[j] \in {PrimaryFieldsOf(t)[k].Name : k \in BelongsToKeys(m, f, t)}
          /\ rel.ForeignFieldNames[j] \in
               {m.StructFields[GetForeignField(f.Name \o PrimaryFieldsOf(t)[k].Name,
                                               m.StructFields)].Name : k \in BelongsToKeys(m, f, t)}

\* C15: a nested-record field (with no key list in its tags) of a cached
\* description whose target is cached has exactly one outcome: has_one, with
\* the pairs of the has_one attempt only, when the target holds a column
\* <associationType><primaryKeyName>; else belongs_to, with the pairs of the
\* belongs_to attempt only, when the owner holds a column
\* <fieldName><primaryKeyName>; else no relationship.
C15_HasOneThenBelongsTo ==
  \A n \in ShapeNames : cache[n] # 0 =>
    \A i \in NestedRecordFields(descs[cache[n]]) :
      LET m == descs[cache[n]]
          f == m.StructFields[i]
          tn == StripPtr(f.Type).base
      IN cache[tn] # 0 =>
           LET t == descs[cache[tn]]
           IN IF HasOneKeys(m, f, t) # {}
                THEN KindOf(f) = "has_one" /\ PairsOfHasOne(m, f, t)
              ELSE IF BelongsToKeys(m, f, t) # {}
                THEN KindOf(f) = "belongs_to" /\ PairsOfBelongsTo(m, f, t)
              ELSE f.Relationship = <<>>

\* the fields of a description that carry a polymorphic relationship whose
\* value no POLYMORPHIC_VALUE tag sets
PolymorphicFields(m) ==
  {i \in 1..Len(m.StructFields) :
     LET f == m.StructFields[i]
     IN /\ HasTag(f, "POLYMORPHIC") /\ ~HasTag(f, "POLYMORPHIC_VALUE")
        /\ f.Relationship # <<>>
        /\ f.Relationship[1].PolymorphicType # <<>>}

\* the table name TableName returns for shape n on the heap (ds, c)
TableNameOn(ds, c, n) ==
  TableName([descs |-> ds, cache |-> c, log |-> <<>>, types |-> Shapes], Ty(<<>>, n), TRUE, MaxDepth).v

\* C16: when a call resolves a shape, every polymorphic relationship of its
\* fields, of a collection field as of a nested-record field, has as its
\* polymorphicValue the table name that TableName returns for the shape
\* (unless a tag sets the value).
C16_PolymorphicValueIsTableName ==
  [][\A n \in ShapeNames :
       (cache[n] = 0 /\ cache'[n] # 0 /\ search' = search)
       => \A i \in PolymorphicFields(descs'[cache'[n]]) :
            descs'[cache'[n]].StructFields[i].Relationship[1].PolymorphicValue
              = TableNameOn(descs', cache', n)]_vars

\* C17: a call of GetModelStruct, PrimaryKey or TableName ends, whatever the
\* cycles among the record shapes (a call that ends in "overflow" is one whose
\* recursion never ends), and it builds the field list of a shape at most
\* once.
C17_TerminatesBuildingOnce ==
  last.op \in {"GetModelStruct", "PrimaryKey", "TableName"}
    => /\ last.st # "overflow"
       /\ \A j, k \in 1..Len(last.built) : j # k => last.built[j] # last.built[k]
====
